---- MODULE Spec2Model ----
(***************************************************************************)
(* A model of the remote MCP server: the mock SDK (ErrorCode, McpError,    *)
(* Server.registerTool, Server.handleRequest), the server construction     *)
(* (createMcpServer), the POST branch of SseHandler.fetch, and the tool    *)
(* handlers of the puppeteer, Brave Search and Supabase collaborators.     *)
(*                                                                         *)
(* JavaScript values are tagged records: [type |-> "undefined"],           *)
(* [type |-> "null"], booleans, numbers, strings, arrays (a sequence of    *)
(* items) and objects (a sequence of <<key, value>> pairs, in insertion    *)
(* order).  Strings are TLA+ strings, so that template literals are \o.    *)
(***************************************************************************)
EXTENDS Integers, Sequences, FiniteSets, Bags, TLC

(***************************************************************************)
(* Bounds of the model.                                                    *)
(***************************************************************************)
\* JSON-RPC ids that are numbers range over 0..MaxId.
MaxId == 1

(***************************************************************************)
(* JavaScript / JSON values.                                               *)
(***************************************************************************)
Undefined == [type |-> "undefined"]
JNull == [type |-> "null"]
JBool(b) == [type |-> "boolean", bool |-> b]
\* The number num, or num + 0.5 when half (a non-integer).
JNum(n) == [type |-> "number", num |-> n, half |-> FALSE]
JHalf(n) == [type |-> "number", num |-> n, half |-> TRUE]
JStr(s) == [type |-> "string", str |-> s]
JArr(items) == [type |-> "array", items |-> items]
JObj(fields) == [type |-> "object", fields |-> fields]
\* A built-in function, which a value inherits from its prototype.
JFunc(name) == [type |-> "function", name |-> name]

Nullish(v) == v.type \in {"undefined", "null"}

(***************************************************************************)
(* Strings.                                                                *)
(***************************************************************************)
StartsWith(s, p) == Len(s) >= Len(p) /\ SubSeq(s, 1, Len(p)) = p

Includes(s, m) ==
  \E i \in 1..(Len(s) - Len(m) + 1) : SubSeq(s, i, i + Len(m) - 1) = m

Digit(d) == SubSeq("0123456789", d + 1, d + 1)

RECURSIVE NatToStr(_)
NatToStr(n) == IF n < 10 THEN Digit(n) ELSE NatToStr(n \div 10) \o Digit(n % 10)

\* Number.prototype.toString for the model's numbers: num, or num + 0.5.
NumToStr(v) ==
  IF ~v.half THEN (IF v.num < 0 THEN "-" \o NatToStr(-v.num) ELSE NatToStr(v.num))
  ELSE IF v.num >= 0 THEN NatToStr(v.num) \o ".5"
  ELSE "-" \o NatToStr(-v.num - 1) \o ".5"

(***************************************************************************)
(* Properties.  A JSON value holds its own data properties; an array, a    *)
(* string and any other value but null and undefined inherit the methods   *)
(* of their prototypes.                                                    *)
(***************************************************************************)
ObjectPrototype ==
  { "hasOwnProperty", "isPrototypeOf", "propertyIsEnumerable", "toLocaleString",
    "toString", "valueOf" }

ArrayPrototype ==
  { "at", "concat", "copyWithin", "entries", "every", "fill", "filter", "find",
    "findIndex", "findLast", "findLastIndex", "flat", "flatMap", "forEach", "includes",
    "indexOf", "join", "keys", "lastIndexOf", "map", "pop", "push", "reduce",
    "reduceRight", "reverse", "shift", "slice", "some", "sort", "splice", "unshift",
    "values" }

StringPrototype ==
  { "at", "charAt", "charCodeAt", "codePointAt", "concat", "endsWith", "includes",
    "indexOf", "lastIndexOf", "localeCompare", "match", "matchAll", "normalize",
    "padEnd", "padStart", "repeat", "replace", "replaceAll", "search", "slice", "split",
    "startsWith", "substring", "substr", "toLowerCase", "toUpperCase", "trim",
    "trimStart", "trimEnd", "anchor", "big", "blink", "bold", "fixed", "fontcolor",
    "fontsize", "italics", "link", "small", "strike", "sub", "sup" }

NumberPrototype == { "toExponential", "toFixed", "toPrecision" }

\* Whether v has the own property k.
Has(v, k) == v.type = "object" /\ \E i \in 1..Len(v.fields) : v.fields[i][1] = k

\* v[k] for a value v that is neither null nor undefined: the own property,
\* an item or the length of an array or a string, or the method inherited.
Get(v, k) ==
  IF Has(v, k)
  THEN LET i == CHOOSE j \in 1..Len(v.fields) : v.fields[j][1] = k
       IN  v.fields[i][2]
  ELSE IF v.type = "array" /\ k = "length" THEN JNum(Len(v.items))
  ELSE IF v.type = "array" /\ \E i \in 1..Len(v.items) : NatToStr(i - 1) = k
  THEN v.items[CHOOSE i \in 1..Len(v.items) : NatToStr(i - 1) = k]
  ELSE IF v.type = "string" /\ k = "length" THEN JNum(Len(v.str))
  ELSE IF v.type = "string" /\ \E i \in 1..Len(v.str) : NatToStr(i - 1) = k
  THEN LET i == CHOOSE j \in 1..Len(v.str) : NatToStr(j - 1) = k
       IN  JStr(SubSeq(v.str, i, i))
  ELSE IF \/ v.type = "array" /\ k \in ArrayPrototype
          \/ v.type = "string" /\ k \in StringPrototype
          \/ v.type = "number" /\ k \in NumberPrototype
          \/ ~Nullish(v) /\ k \in ObjectPrototype
  THEN JFunc(k)
  ELSE Undefined

\* ToBoolean(v): what `v || x`, `v ? a : b` and `if (v)` test.
Truthy(v) ==
  CASE v.type \in {"undefined", "null"} -> FALSE
    [] v.type = "boolean" -> v.bool
    [] v.type = "number" -> (v.num # 0 \/ v.half)
    [] v.type = "string" -> v.str # ""
    [] OTHER -> TRUE

(***************************************************************************)
(* Errors and completions.  A thrown value is an Error object (class,      *)
(* message, and a code when it is an McpError) or any other value.         *)
(***************************************************************************)
ParseError == -32700
InvalidRequest == -32600
MethodNotFound == -32601
InvalidParams == -32602
InternalError == -32603

ErrorCodes == {ParseError, InvalidRequest, MethodNotFound, InvalidParams, InternalError}

ErrorObj(class, message) == [class |-> class, message |-> message]
McpError(code, message) == [class |-> "McpError", message |-> message, code |-> code]
NonError(v) == [class |-> "NonError", value |-> v]

InstanceOfError(e) == e.class # "NonError"
InstanceOfMcpError(e) == e.class = "McpError"

\* Reading property k of null or undefined.
PropTypeError(v, k) ==
  ErrorObj("TypeError",
           "Cannot read properties of " \o v.type \o " (reading '" \o k \o "')")

\* ToPrimitive of an object whose own toString is no function (in a JSON
\* value no property is one): valueOf gives the object back.
ToPrimitiveError == ErrorObj("TypeError", "Cannot convert object to primitive value")

Return(v) == [kind |-> "return", value |-> v]
Throw(e) == [kind |-> "throw", error |-> e]

(***************************************************************************)
(* String(v), as a template literal `${v}` computes it: it returns the     *)
(* text or throws.                                                         *)
(***************************************************************************)
RECURSIVE ToStr(_)
RECURSIVE JoinItems(_, _)
\* Array.prototype.join(sep): null and undefined items are empty.
JoinItems(items, sep) ==
  IF items = <<>> THEN Return("")
  ELSE LET h == IF Nullish(Head(items)) THEN Return("") ELSE ToStr(Head(items))
       IN  IF h.kind = "throw" THEN h
           ELSE IF Len(items) = 1 THEN h
           ELSE LET t == JoinItems(Tail(items), sep)
                IN  IF t.kind = "throw" THEN t ELSE Return(h.value \o sep \o t.value)

ToStr(v) ==
  CASE v.type = "undefined" -> Return("undefined")
    [] v.type = "null" -> Return("null")
    [] v.type = "boolean" -> Return(IF v.bool THEN "true" ELSE "false")
    [] v.type = "number" -> Return(NumToStr(v))
    [] v.type = "string" -> Return(v.str)
    [] v.type = "array" -> JoinItems(v.items, ",")
    [] v.type = "function" -> Return("function " \o v.name \o "() { [native code] }")
    [] OTHER -> IF Has(v, "toString") THEN Throw(ToPrimitiveError)
                ELSE Return("[object Object]")

RECURSIVE Template(_)
\* A template literal whose parts, in order, are the values parts.
Template(parts) ==
  IF parts = <<>> THEN Return("")
  ELSE LET h == ToStr(Head(parts))
       IN  IF h.kind = "throw" THEN h
           ELSE LET t == Template(Tail(parts))
                IN  IF t.kind = "throw" THEN t ELSE Return(h.value \o t.value)

(***************************************************************************)
(* JSON.stringify(value, null, gap) and what a JSON text denotes.          *)
(***************************************************************************)
RECURSIVE EscapeStr(_)
\* QuoteJSONString, without the quotes (the model's strings hold no other
\* control character).
EscapeStr(s) ==
  IF Len(s) = 0 THEN ""
  ELSE LET c == SubSeq(s, 1, 1)
       IN  (CASE c = "\"" -> "\\\""
              [] c = "\\" -> "\\\\"
              [] c = "\n" -> "\\n"
              [] c = "\t" -> "\\t"
              [] c = "\r" -> "\\r"
              [] c = "\f" -> "\\f"
              [] OTHER -> c) \o EscapeStr(SubSeq(s, 2, Len(s)))

Quote(s) == "\"" \o EscapeStr(s) \o "\""

\* The properties JSON.stringify writes: not undefined, not a function.
Defined(fields) == SelectSeq(fields, LAMBDA p : p[2].type \notin {"undefined", "function"})

RECURSIVE Str(_, _, _)
RECURSIVE StrItems(_, _, _, _)
RECURSIVE StrFields(_, _, _, _)
\* The items of an array, separated by sep; undefined is written null.
StrItems(items, gap, indent, sep) ==
  (IF Head(items).type \in {"undefined", "function"} THEN "null"
   ELSE Str(Head(items), gap, indent))
  \o (IF Len(items) > 1 THEN sep \o StrItems(Tail(items), gap, indent, sep) ELSE "")

\* The (defined) properties of an object, separated by sep.
StrFields(fields, gap, indent, sep) ==
  Quote(Head(fields)[1]) \o (IF gap = "" THEN ":" ELSE ": ")
  \o Str(Head(fields)[2], gap, indent)
  \o (IF Len(fields) > 1 THEN sep \o StrFields(Tail(fields), gap, indent, sep) ELSE "")

\* The text of a defined value v at indentation indent.
Str(v, gap, indent) ==
  LET step == indent \o gap
      open == IF gap = "" THEN "" ELSE "\n" \o step
      sep == IF gap = "" THEN "," ELSE ",\n" \o step
      close == IF gap = "" THEN "" ELSE "\n" \o indent
  IN  CASE v.type = "null" -> "null"
        [] v.type = "boolean" -> (IF v.bool THEN "true" ELSE "false")
        [] v.type = "number" -> NumToStr(v)
        [] v.type = "string" -> Quote(v.str)
        [] v.type = "array" ->
             IF v.items = <<>> THEN "[]"
             ELSE "[" \o open \o StrItems(v.items, gap, step, sep) \o close \o "]"
        [] OTHER ->
             IF Defined(v.fields) = <<>> THEN "{}"
             ELSE "{" \o open \o StrFields(Defined(v.fields), gap, step, sep) \o close \o "}"

\* JSON.stringify(v, null, gap): a string, or undefined for undefined and
\* for a function.
JsonStringify(v, gap) ==
  IF v.type \in {"undefined", "function"} THEN Undefined ELSE JStr(Str(v, gap, ""))

\* The value a reader of JSON.stringify(v) gets back: undefined properties
\* are dropped and undefined array items are null.
RECURSIVE WireValue(_)
RECURSIVE WireItems(_)
RECURSIVE WireFields(_)
WireItems(items) ==
  IF items = <<>> THEN <<>>
  ELSE <<IF Head(items).type \in {"undefined", "function"} THEN JNull
          ELSE WireValue(Head(items))>>
       \o WireItems(Tail(items))

WireFields(fields) ==
  IF fields = <<>> THEN <<>>
  ELSE << <<Head(fields)[1], WireValue(Head(fields)[2])>> >> \o WireFields(Tail(fields))

WireValue(v) ==
  CASE v.type = "array" -> JArr(WireItems(v.items))
    [] v.type = "object" -> JObj(WireFields(Defined(v.fields)))
    [] OTHER -> v

(***************************************************************************)
(* The input schemas (zod).  Each operator is safeParse(args).success.      *)
(* z.object accepts an object that is neither null nor an array and        *)
(* ignores unknown keys; .optional() accepts undefined, not null.          *)
(***************************************************************************)
IsObject(v) == v.type = "object"
IsString(v) == v.type = "string"
\* z.string().min(1)
IsNonEmptyString(v) == v.type = "string" /\ Len(v.str) >= 1
\* z.number().int().min(lo).max(hi)
IsIntBetween(v, lo, hi) == v.type = "number" /\ ~v.half /\ lo <= v.num /\ v.num <= hi
\* z.enum(values)
IsOneOf(v, values) == v.type = "string" /\ v.str \in values
Optional(P(_), v) == v.type = "undefined" \/ P(v)

Letters == "abcdefghijklmnopqrstuvwxyzABCDEFGHIJKLMNOPQRSTUVWXYZ"
Digits == "0123456789"
IsCharOf(c, class) == Len(c) = 1 /\ Includes(class, c)

\* The printable ASCII characters from code 32 to code 95, and from code 97
\* (a TLA+ string holds no grave accent, code 96).
AsciiLow == " !\"#$%&'()*+,-./0123456789:;<=>?@ABCDEFGHIJKLMNOPQRSTUVWXYZ[\\]^_"
AsciiHigh == "abcdefghijklmnopqrstuvwxyz{|}~"

\* The code of a character of the model's strings.
CodeOf(c) ==
  CASE c = "\t" -> 9
    [] c = "\n" -> 10
    [] c = "\f" -> 12
    [] c = "\r" -> 13
    [] IsCharOf(c, AsciiLow) -> 31 + (CHOOSE i \in 1..Len(AsciiLow) : SubSeq(AsciiLow, i, i) = c)
    [] OTHER -> 96 + (CHOOSE i \in 1..Len(AsciiHigh) : SubSeq(AsciiHigh, i, i) = c)

\* z.string().url(): a string for which new URL(s) does not throw.  The URL
\* parser is the runtime's, and no code of the program runs it (the schemas
\* are only handed to registerTool): parses is its verdict on the string.
IsUrl(v, parses) == v.type = "string" /\ parses

SafeSearchValues == {"strict", "moderate", "off"}
FreshnessValues == {"day", "week", "month", "any"}

NavigateSchema(a, parses) == IsObject(a) /\ IsUrl(Get(a, "url"), parses)
ScreenshotSchema(a) == IsObject(a) /\ Optional(IsString, Get(a, "selector"))
GetTextSchema(a) == IsObject(a) /\ IsString(Get(a, "selector"))
ClickSchema(a) == IsObject(a) /\ IsString(Get(a, "selector"))
TypeSchema(a) == IsObject(a) /\ IsString(Get(a, "selector")) /\ IsString(Get(a, "text"))

IsCount(v) == IsIntBetween(v, 1, 20)
IsCountry(v) == v.type = "string" /\ Len(v.str) = 2
IsSafeSearch(v) == IsOneOf(v, SafeSearchValues)
IsFreshness(v) == IsOneOf(v, FreshnessValues)

WebSearchSchema(a) ==
  /\ IsObject(a)
  /\ IsNonEmptyString(Get(a, "query"))
  /\ Optional(IsCount, Get(a, "count"))
  /\ Optional(IsCountry, Get(a, "country"))
  /\ Optional(IsString, Get(a, "language"))
  /\ Optional(IsSafeSearch, Get(a, "safesearch"))

NewsSearchSchema(a) ==
  /\ IsObject(a)
  /\ IsNonEmptyString(Get(a, "query"))
  /\ Optional(IsCount, Get(a, "count"))
  /\ Optional(IsFreshness, Get(a, "freshness"))

ImageSearchSchema(a) ==
  /\ IsObject(a)
  /\ IsNonEmptyString(Get(a, "query"))
  /\ Optional(IsCount, Get(a, "count"))
  /\ Optional(IsSafeSearch, Get(a, "safesearch"))

IsLimit(v) == IsIntBetween(v, 1, 1000)
\* z.record(z.any())
IsRecord(v) == v.type = "object"
\* z.array(z.record(z.any())).min(1)
IsRows(v) ==
  v.type = "array" /\ Len(v.items) >= 1 /\ \A i \in 1..Len(v.items) : IsRecord(v.items[i])

QueryTableSchema(a) ==
  /\ IsObject(a)
  /\ IsNonEmptyString(Get(a, "table"))
  /\ Optional(IsString, Get(a, "select"))
  /\ Optional(IsLimit, Get(a, "limit"))
  /\ Optional(IsString, Get(a, "order"))
  /\ Optional(IsString, Get(a, "filter"))

InsertRowsSchema(a) ==
  IsObject(a) /\ IsNonEmptyString(Get(a, "table")) /\ IsRows(Get(a, "rows"))

UpdateRowsSchema(a) ==
  /\ IsObject(a)
  /\ IsNonEmptyString(Get(a, "table"))
  /\ IsRecord(Get(a, "updates"))
  /\ IsNonEmptyString(Get(a, "filter"))

DeleteRowsSchema(a) ==
  IsObject(a) /\ IsNonEmptyString(Get(a, "table")) /\ IsNonEmptyString(Get(a, "filter"))

ExecuteStoredProcedureSchema(a) ==
  /\ IsObject(a)
  /\ IsNonEmptyString(Get(a, "function"))
  /\ Optional(IsRecord, Get(a, "params"))

(***************************************************************************)
(* The tool tables, in the order createMcpServer registers them.           *)
(***************************************************************************)
Tool(name, description) == [name |-> name, description |-> description]

createPuppeteerToolsTable ==
  << Tool("puppeteer_navigate", "Navigate to a URL in a browser"),
     Tool("puppeteer_screenshot", "Take a screenshot of the current page or a specific element"),
     Tool("puppeteer_get_text", "Get text content from an element on the page"),
     Tool("puppeteer_click", "Click on an element on the page"),
     Tool("puppeteer_type", "Type text into an input field") >>

createBraveSearchToolsTable ==
  << Tool("brave_web_search", "Search the web using Brave Search"),
     Tool("brave_news_search", "Search for news articles using Brave Search"),
     Tool("brave_image_search", "Search for images using Brave Search") >>

createSupabaseToolsTable ==
  << Tool("supabase_query_table", "Query a table in Supabase database"),
     Tool("supabase_insert_rows", "Insert rows into a Supabase table"),
     Tool("supabase_update_rows", "Update rows in a Supabase table"),
     Tool("supabase_delete_rows", "Delete rows from a Supabase table"),
     Tool("supabase_execute_function", "Execute a stored procedure in Supabase database") >>

AllTools == createPuppeteerToolsTable \o createBraveSearchToolsTable \o createSupabaseToolsTable

NamesOf(table) == {table[i].name : i \in 1..Len(table)}
PuppeteerNames == NamesOf(createPuppeteerToolsTable)
BraveNames == NamesOf(createBraveSearchToolsTable)
SupabaseNames == NamesOf(createSupabaseToolsTable)
ToolNames == NamesOf(AllTools)

\* Whether args passes the input schema of the tool called name, parses being
\* the verdict of the URL parser on a url it holds.
InputSchemaAccepts(name, a, parses) ==
  CASE name = "puppeteer_navigate" -> NavigateSchema(a, parses)
    [] name = "puppeteer_screenshot" -> ScreenshotSchema(a)
    [] name = "puppeteer_get_text" -> GetTextSchema(a)
    [] name = "puppeteer_click" -> ClickSchema(a)
    [] name = "puppeteer_type" -> TypeSchema(a)
    [] name = "brave_web_search" -> WebSearchSchema(a)
    [] name = "brave_news_search" -> NewsSearchSchema(a)
    [] name = "brave_image_search" -> ImageSearchSchema(a)
    [] name = "supabase_query_table" -> QueryTableSchema(a)
    [] name = "supabase_insert_rows" -> InsertRowsSchema(a)
    [] name = "supabase_update_rows" -> UpdateRowsSchema(a)
    [] name = "supabase_delete_rows" -> DeleteRowsSchema(a)
    [] name = "supabase_execute_function" -> ExecuteStoredProcedureSchema(a)

(***************************************************************************)
(* Tool results and the outcome of one handler invocation.                 *)
(***************************************************************************)
TextBlock(text) == JObj(<< <<"type", JStr("text")>>, <<"text", JStr(text)>> >>)
\* { content: [{ type: "text", text }] }
TextResult(text) == JObj(<< <<"content", JArr(<<TextBlock(text)>>)>> >>)
\* { content: [{ type: "text", text }], isError: true }
ErrorResult(text) ==
  JObj(<< <<"content", JArr(<<TextBlock(text)>>)>>, <<"isError", JBool(TRUE)>> >>)

\* How an invocation of an async handler settles, with the outbound fetch
\* calls it made.
Resolved(v, outbound) == [kind |-> "resolved", value |-> v, outbound |-> outbound]
Rejected(e, outbound) == [kind |-> "rejected", error |-> e, outbound |-> outbound]

(***************************************************************************)
(* The puppeteer stubs: no try/catch, no outbound call.                    *)
(***************************************************************************)
\* An async handler whose body reads args[first] first and returns the text
\* of one template literal: it resolves, or rejects with what the template
\* threw.
TextHandler(args, first, parts) ==
  IF Nullish(args) THEN Rejected(PropTypeError(args, first), <<>>)
  ELSE LET text == Template(parts)
       IN  IF text.kind = "throw" THEN Rejected(text.error, <<>>)
           ELSE Resolved(TextResult(text.value), <<>>)

puppeteer_navigate(args) ==
  TextHandler(args, "url", <<JStr("Successfully navigated to "), Get(args, "url")>>)

puppeteer_screenshot(args) ==
  TextHandler(args, "selector",
              <<JStr("Screenshot taken of selector: "),
                IF Truthy(Get(args, "selector")) THEN Get(args, "selector") ELSE JStr("body")>>)

puppeteer_get_text(args) ==
  TextHandler(args, "selector",
              <<JStr("Text content from "), Get(args, "selector"),
                JStr(": [Simulated content for demonstration]")>>)

puppeteer_click(args) ==
  TextHandler(args, "selector",
              <<JStr("Clicked on element with selector: "), Get(args, "selector")>>)

puppeteer_type(args) ==
  TextHandler(args, "text",
              <<JStr("Typed \""), Get(args, "text"),
                JStr("\" into element with selector: "), Get(args, "selector")>>)

(***************************************************************************)
(* The upstream: what one fetch call does.  It throws (an Error, or any    *)
(* other value), or answers with a status, a status text and a body that   *)
(* response.json() parses to data or rejects.                              *)
(***************************************************************************)
UpThrow(e) == [kind |-> "throw", error |-> e]
UpResponse(status, statusText, body) ==
  [kind |-> "response", status |-> status, statusText |-> statusText, body |-> body]
BodyOf(data) == [valid |-> TRUE, data |-> data]
\* The empty text, which is no JSON.
EmptyBody == [valid |-> FALSE]
JsonSyntaxError == ErrorObj("SyntaxError", "Unexpected end of JSON input")

\* response.ok
ResponseOk(up) == 200 <= up.status /\ up.status <= 299

\* The statements that follow `await fetch(...)` in every Brave and Supabase
\* handler: the status check, response.json() and the result; api names the
\* upstream in the status error.
AfterFetch(api, up) ==
  IF up.kind = "throw" THEN Throw(up.error)
  ELSE IF ~ResponseOk(up)
  THEN Throw(ErrorObj("Error", api \o " API error: " \o NatToStr(up.status)
                               \o " " \o up.statusText))
  ELSE IF ~up.body.valid THEN Throw(JsonSyntaxError)
  ELSE Return(TextResult(Str(up.body.data, "  ", "")))

\* The text of a catch block:
\* `Error in ${name}: ${error instanceof Error ? error.message : String(error)}`
CatchText(name, e) ==
  IF InstanceOfError(e) THEN Return("Error in " \o name \o ": " \o e.message)
  ELSE Template(<<JStr("Error in " \o name \o ": "), e.value>>)

\* A catch block that leaves isError out of its result.
CatchBlock_NoErrorFlag(name, e) ==
  LET text == CatchText(name, e)
  IN  IF text.kind = "throw" THEN text ELSE Return(TextResult(text.value))

\* The catch block of the handler of the tool called name: it returns the
\* error result, or throws when String(error) does.
CatchBlock(name, e) ==
  LET text == CatchText(name, e)
  IN  IF text.kind = "throw" THEN text ELSE Return(ErrorResult(text.value))

\* The promise of a handler whose try block made the outbound calls and
\* threw e.
Caught(name, e, outbound) ==
  LET c == CatchBlock(name, e)
  IN  IF c.kind = "throw" THEN Rejected(c.error, outbound) ELSE Resolved(c.value, outbound)

\* try { ... } catch (error) { ... } around a handler body that made the
\* outbound calls and completed with c.
TryCatch(name, c, outbound) ==
  IF c.kind = "throw" THEN Caught(name, c.error, outbound)
  ELSE Resolved(c.value, outbound)

Outbound(method, url, headers, body) ==
  [method |-> method, url |-> url, headers |-> headers, body |-> body]

(***************************************************************************)
(* Brave Search.  URLSearchParams.toString() is the                        *)
(* application/x-www-form-urlencoded serialisation: letters, digits and    *)
(* "*-._" stay, a space is "+", any other character is percent-encoded     *)
(* (the table holds the characters of the model's strings).                *)
(***************************************************************************)
BRAVE_SEARCH_API == "https://api.search.brave.com/res/v1"

\* The characters the serialisation leaves as they are.
FormSafe == Letters \o Digits \o "*-._"

\* The uppercase hexadecimal digit of d.
UpperHex(d) == SubSeq("0123456789ABCDEF", d + 1, d + 1)

FormEncodeChar(c) ==
  CASE IsCharOf(c, FormSafe) -> c
    [] c = " " -> "+"
    [] OTHER -> "%" \o UpperHex(CodeOf(c) \div 16) \o UpperHex(CodeOf(c) % 16)

RECURSIVE FormEncode(_)
FormEncode(s) ==
  IF Len(s) = 0 THEN ""
  ELSE FormEncodeChar(SubSeq(s, 1, 1)) \o FormEncode(SubSeq(s, 2, Len(s)))

\* searchParams.toString() for the list of <<name, value>> pairs.
RECURSIVE SearchParamsToString(_)
SearchParamsToString(pairs) ==
  IF pairs = <<>> THEN ""
  ELSE FormEncode(Head(pairs)[1]) \o "=" \o FormEncode(Head(pairs)[2])
       \o (IF Len(pairs) > 1 THEN "&" \o SearchParamsToString(Tail(pairs)) ELSE "")

\* args.count?.toString() || "10": the text, or the TypeError of calling a
\* toString that is no function (an own property of a JSON object).
CountParam(args) ==
  LET c == Get(args, "count")
  IN  IF Nullish(c) THEN Return("10")
      ELSE IF Get(c, "toString").type # "function"
      THEN Throw(ErrorObj("TypeError", "args.count?.toString is not a function"))
      ELSE LET s == ToStr(c)
           IN  IF s.kind = "throw" THEN s
               ELSE Return(IF s.value = "" THEN "10" ELSE s.value)

\* if (args.k) searchParams.append(k, args.k): the pair appended, its value
\* converted to a string.
AppendIf(args, k) ==
  IF Truthy(Get(args, k)) THEN << <<k, ToStr(Get(args, k))>> >> ELSE <<>>

\* The pairs of a URLSearchParams whose values are converted in this order:
\* the conversion that throws first ends it.
RECURSIVE SearchParams(_)
SearchParams(steps) ==
  IF steps = <<>> THEN Return(<<>>)
  ELSE LET h == Head(steps)[2]
       IN  IF h.kind = "throw" THEN h
           ELSE LET t == SearchParams(Tail(steps))
                IN  IF t.kind = "throw" THEN t
                    ELSE Return(<< <<Head(steps)[1], h.value>> >> \o t.value)

\* new URLSearchParams({ q: args.query, count: ..., ...fixed }) and the
\* appends that follow it: the object literal is evaluated, count included,
\* before any value is converted.
BraveParams(args, fixed, appended) ==
  LET count == CountParam(args)
  IN  IF count.kind = "throw" THEN count
      ELSE SearchParams(<< <<"q", ToStr(Get(args, "query"))>>, <<"count", count>> >>
                        \o fixed \o appended)

\* The module-level apiHeaders object, with the token createBraveSearchTools set.
ApiHeaders(cfg) ==
  JObj(<< <<"Accept", JStr("application/json")>>,
          <<"Content-Type", JStr("application/json")>>,
          <<"X-Subscription-Token", JStr(cfg.braveToken)>> >>)

\* The body of a Brave handler: the search parameters params, then one GET
\* of path with them.
BraveHandler(name, path, args, params, up, cfg) ==
  IF Nullish(args) THEN TryCatch(name, Throw(PropTypeError(args, "query")), <<>>)
  ELSE IF params.kind = "throw" THEN TryCatch(name, params, <<>>)
  ELSE LET url == BRAVE_SEARCH_API \o path \o "?" \o SearchParamsToString(params.value)
       IN  TryCatch(name, AfterFetch("Brave Search", up),
                    <<Outbound("GET", url, ApiHeaders(cfg), Undefined)>>)

brave_web_search(args, up, cfg) ==
  BraveHandler("brave_web_search", "/web/search", args,
               BraveParams(args, <<>>,
                           AppendIf(args, "country") \o AppendIf(args, "language")
                           \o AppendIf(args, "safesearch")),
               up, cfg)

brave_news_search(args, up, cfg) ==
  BraveHandler("brave_news_search", "/news/search", args,
               BraveParams(args, << <<"search_type", Return("news")>> >>,
                           AppendIf(args, "freshness")),
               up, cfg)

brave_image_search(args, up, cfg) ==
  BraveHandler("brave_image_search", "/images/search", args,
               BraveParams(args, << <<"search_type", Return("images")>> >>,
                           AppendIf(args, "safesearch")),
               up, cfg)

(***************************************************************************)
(* Supabase.  URLs and bodies are template literals and JSON.stringify.    *)
(***************************************************************************)
SupabaseHeaders(cfg, prefer) ==
  JObj(<< <<"apikey", JStr(cfg.supabaseKey)>>,
          <<"Authorization", JStr("Bearer " \o cfg.supabaseKey)>>,
          <<"Content-Type", JStr("application/json")>> >>
       \o (IF prefer THEN << <<"Prefer", JStr("return=representation")>> >> ELSE <<>>))

\* if (args.k) url += `${prefix}${args.k}`: the parts added.
UrlPartIf(args, k, prefix) ==
  IF Truthy(Get(args, k)) THEN <<JStr(prefix), Get(args, k)>> ELSE <<>>

\* The body of a Supabase handler: the first property it reads is first;
\* the url is the template literal of the parts urlParts; then one fetch of
\* it.
SupabaseHandler(name, first, args, method, urlParts, prefer, body, up, cfg) ==
  IF Nullish(args) THEN TryCatch(name, Throw(PropTypeError(args, first)), <<>>)
  ELSE LET url == Template(urlParts)
       IN  IF url.kind = "throw" THEN TryCatch(name, url, <<>>)
           ELSE TryCatch(name, AfterFetch("Supabase", up),
                         <<Outbound(method, url.value, SupabaseHeaders(cfg, prefer), body)>>)

supabase_query_table(args, up, cfg) ==
  SupabaseHandler("supabase_query_table", "table", args, "GET",
                  <<JStr(cfg.supabaseUrl \o "/rest/v1/"), Get(args, "table"),
                    JStr("?select="), Get(args, "select")>>
                  \o UrlPartIf(args, "limit", "&limit=")
                  \o UrlPartIf(args, "order", "&order=")
                  \o UrlPartIf(args, "filter", "&"),
                  FALSE, Undefined, up, cfg)

supabase_insert_rows(args, up, cfg) ==
  SupabaseHandler("supabase_insert_rows", "table", args, "POST",
                  <<JStr(cfg.supabaseUrl \o "/rest/v1/"), Get(args, "table")>>,
                  TRUE, JsonStringify(Get(args, "rows"), ""), up, cfg)

supabase_update_rows(args, up, cfg) ==
  SupabaseHandler("supabase_update_rows", "table", args, "PATCH",
                  <<JStr(cfg.supabaseUrl \o "/rest/v1/"), Get(args, "table"),
                    JStr("?"), Get(args, "filter")>>,
                  TRUE, JsonStringify(Get(args, "updates"), ""), up, cfg)

supabase_delete_rows(args, up, cfg) ==
  SupabaseHandler("supabase_delete_rows", "table", args, "DELETE",
                  <<JStr(cfg.supabaseUrl \o "/rest/v1/"), Get(args, "table"),
                    JStr("?"), Get(args, "filter")>>,
                  TRUE, Undefined, up, cfg)

supabase_execute_function(args, up, cfg) ==
  SupabaseHandler("supabase_execute_function", "function", args, "POST",
                  <<JStr(cfg.supabaseUrl \o "/rest/v1/rpc/"), Get(args, "function")>>,
                  FALSE,
                  IF Truthy(Get(args, "params")) THEN JsonStringify(Get(args, "params"), "")
                  ELSE Undefined,
                  up, cfg)

\* toolDef.handler(args) for the tool called name, against the upstream up.
Handler(name, args, up, cfg) ==
  CASE name = "puppeteer_navigate" -> puppeteer_navigate(args)
    [] name = "puppeteer_screenshot" -> puppeteer_screenshot(args)
    [] name = "puppeteer_get_text" -> puppeteer_get_text(args)
    [] name = "puppeteer_click" -> puppeteer_click(args)
    [] name = "puppeteer_type" -> puppeteer_type(args)
    [] name = "brave_web_search" -> brave_web_search(args, up, cfg)
    [] name = "brave_news_search" -> brave_news_search(args, up, cfg)
    [] name = "brave_image_search" -> brave_image_search(args, up, cfg)
    [] name = "supabase_query_table" -> supabase_query_table(args, up, cfg)
    [] name = "supabase_insert_rows" -> supabase_insert_rows(args, up, cfg)
    [] name = "supabase_update_rows" -> supabase_update_rows(args, up, cfg)
    [] name = "supabase_delete_rows" -> supabase_delete_rows(args, up, cfg)
    [] name = "supabase_execute_function" -> supabase_execute_function(args, up, cfg)

\* A handler that clears the token once it has sent it.
ConfigAfterHandler_TokenCleared(name, cfg) ==
  IF name \in BraveNames THEN [cfg EXCEPT !.braveToken = ""] ELSE cfg

\* The module-level configuration after the handler of the tool called name
\* ran: the handlers read apiHeaders, SUPABASE_URL and SUPABASE_API_KEY and
\* assign none of them.
ConfigAfterHandler(name, cfg) == cfg

(***************************************************************************)
(* The mock SDK and the construction of the server.                        *)
(***************************************************************************)
\* Server.registerTool stores nothing: it logs the name.  registered is the
\* sequence of names it was called with.
registerTool(registered, name) == Append(registered, name)

RECURSIVE RegisterAll(_, _)
\* for (const [name, toolDef] of Object.entries(tools)) server.registerTool(...)
RegisterAll(registered, table) ==
  IF table = <<>> THEN registered
  ELSE RegisterAll(registerTool(registered, Head(table).name), Tail(table))

setupPuppeteerTools(registered) == RegisterAll(registered, createPuppeteerToolsTable)
setupBraveSearchTools(registered) == RegisterAll(registered, createBraveSearchToolsTable)
setupSupabaseTools(registered) == RegisterAll(registered, createSupabaseToolsTable)

createMcpServer == setupSupabaseTools(setupBraveSearchTools(setupPuppeteerTools(<<>>)))

\* The global scope the program is loaded in: whether `self` is defined and
\* which configuration keys it holds.
Envs ==
  [selfDefined : BOOLEAN, braveKey : BOOLEAN, projectRef : BOOLEAN, serviceKey : BOOLEAN]

\* The module-level configuration of the modules just loaded: apiHeaders'
\* token, SUPABASE_URL and SUPABASE_API_KEY.
LoadedConfig == [braveToken |-> "", supabaseUrl |-> "", supabaseKey |-> ""]

\* createBraveSearchTools(), in the scope env: it sets the token when self
\* holds BRAVE_API_KEY and leaves it otherwise.
createBraveSearchTools(cfg, env) ==
  IF env.selfDefined /\ env.braveKey THEN [cfg EXCEPT !.braveToken = "brave-key"] ELSE cfg

\* createSupabaseTools(), in the scope env: it sets SUPABASE_URL and
\* SUPABASE_API_KEY when self holds both keys and leaves them otherwise.
createSupabaseTools(cfg, env) ==
  IF env.selfDefined /\ env.projectRef /\ env.serviceKey
  THEN [cfg EXCEPT !.supabaseUrl = "https://" \o "proj" \o ".supabase.co",
                   !.supabaseKey = "service-key"]
  ELSE cfg

\* The configuration once createMcpServer has run in the scope env.
Config(env) == createSupabaseTools(createBraveSearchTools(LoadedConfig, env), env)

\* The calls one setup function makes: create, then registerTool for each
\* entry of the table.
SetupCalls(create, table) ==
  <<[op |-> create, name |-> ""]>>
  \o [i \in 1..Len(table) |-> [op |-> "registerTool", name |-> table[i].name]]

\* The calls createMcpServer makes, in order.
createMcpServerCalls ==
  SetupCalls("createPuppeteerTools", createPuppeteerToolsTable)
  \o SetupCalls("createBraveSearchTools", createBraveSearchToolsTable)
  \o SetupCalls("createSupabaseTools", createSupabaseToolsTable)

\* Server.handleRequest(schema, requestBody): its promise resolves with the
\* response object and the handlers it invoked (none), or rejects with the
\* TypeError of reading requestBody.id of null or undefined.
handleRequest(schema, requestBody) ==
  IF Nullish(requestBody) THEN Throw(PropTypeError(requestBody, "id"))
  ELSE Return([body |-> JObj(<< <<"jsonrpc", JStr("2.0")>>,
                                <<"id", IF Truthy(Get(requestBody, "id"))
                                        THEN Get(requestBody, "id") ELSE JNull>>,
                                <<"result", JObj(<<>>)>> >>),
               invoked |-> <<>>])

(***************************************************************************)
(* SseHandler.fetch, the POST branch.                                      *)
(***************************************************************************)
Response(status, contentType, body) ==
  [kind |-> "response", status |-> status, contentType |-> contentType, body |-> body]

\* An error that does not name the method.
UnknownMethod_NoName(method) == Throw(McpError(MethodNotFound, "Unknown method"))

\* throw new McpError(ErrorCode.MethodNotFound, `Unknown method: ${requestBody.method}`):
\* the McpError is thrown, or what the template literal threw.
UnknownMethod(method) ==
  LET message == Template(<<JStr("Unknown method: "), method>>)
  IN  IF message.kind = "throw" THEN message
      ELSE Throw(McpError(MethodNotFound, message.value))

\* The try block: request.json(), the routing and the handling.  It returns
\* what handleRequest's promise resolved with or throws (what that promise
\* rejected with, too).
FetchPostTry(body) ==
  IF ~body.valid THEN Throw(JsonSyntaxError)
  ELSE LET requestBody == body.data
       IN  IF Nullish(requestBody) THEN Throw(PropTypeError(requestBody, "method"))
           ELSE LET method == Get(requestBody, "method")
                IN  IF method = JStr("list_tools")
                    THEN handleRequest("ListToolsRequestSchema", requestBody)
                    ELSE IF method = JStr("call_tool")
                    THEN handleRequest("CallToolRequestSchema", requestBody)
                    ELSE IF method = JStr("list_resources")
                    THEN handleRequest("ListResourcesRequestSchema", requestBody)
                    ELSE IF method = JStr("list_resource_templates")
                    THEN handleRequest("ListResourceTemplatesRequestSchema", requestBody)
                    ELSE IF method = JStr("read_resource")
                    THEN handleRequest("ReadResourceRequestSchema", requestBody)
                    ELSE UnknownMethod(method)

\* error instanceof McpError ? error.code : ErrorCode.InternalError
ErrorCodeOf(e) == IF InstanceOfMcpError(e) THEN e.code ELSE InternalError

\* error instanceof Error ? error.message : 'Unknown error'
ErrorMessageOf(e) == IF InstanceOfError(e) THEN e.message ELSE "Unknown error"

\* An error response sent without { status: 500 }.
ErrorResponse_Status200(e) ==
  Response(200, "application/json",
           WireValue(JObj(<< <<"jsonrpc", JStr("2.0")>>,
                             <<"error", JObj(<< <<"code", JNum(ErrorCodeOf(e))>>,
                                                <<"message", JStr(ErrorMessageOf(e))>> >>)>>,
                             <<"id", JNull>> >>)))

\* The catch block: the error response.
ErrorResponse(e) ==
  Response(500, "application/json",
           WireValue(JObj(<< <<"jsonrpc", JStr("2.0")>>,
                             <<"error", JObj(<< <<"code", JNum(ErrorCodeOf(e))>>,
                                                <<"message", JStr(ErrorMessageOf(e))>> >>)>>,
                             <<"id", JNull>> >>)))

\* new Response(JSON.stringify(responseBody), { headers })
SuccessResponse(responseBody) == Response(200, "application/json", WireValue(responseBody))

\* fetch for a POST with this body: the response and the handlers invoked.
FetchPost(body) ==
  LET c == FetchPostTry(body)
  IN  IF c.kind = "throw" THEN [response |-> ErrorResponse(c.error), invoked |-> <<>>]
      ELSE [response |-> SuccessResponse(c.value.body), invoked |-> c.value.invoked]

\* The default response, for a method that is neither GET nor POST.
MethodNotAllowed == Response(405, "text/plain;charset=UTF-8", JStr("Method not allowed"))

(***************************************************************************)
(* SseHandler.fetch, the GET branch: the notification channel.  A channel  *)
(* is the ReadableStream of the response with its controller, the          *)
(* heartbeat interval and the request's abort signal.  events is what was  *)
(* enqueued, thrown the exceptions its callbacks left uncaught, elapsed    *)
(* the time the interval has run for, atAbort the number of events         *)
(* enqueued when the signal fired (-1 before it fires).  A channel lives  *)
(* on after fetch has returned its response.                               *)
(***************************************************************************)
ConnectedEvent == "event: connected\ndata: {\"serverId\": \"cloudflare-mcp-server\"}\n\n"
HeartbeatEvent == "event: heartbeat\ndata: {}\n\n"

\* setInterval(..., 30000)
HeartbeatPeriod == 30000

\* new ReadableStream({ start }), before start runs; the signal of the
\* request may have fired already.
NewChannel(signalAborted) ==
  [stream |-> "readable", events |-> <<>>, thrown |-> <<>>,
   interval |-> FALSE, listener |-> FALSE, aborted |-> signalAborted,
   atAbort |-> IF signalAborted THEN 0 ELSE -1, cancelled |-> FALSE, elapsed |-> 0]

\* controller.enqueue(chunk): a TypeError once the stream is no longer readable.
ControllerEnqueue(ch, chunk) ==
  IF ch.stream = "readable" THEN [ch EXCEPT !.events = Append(@, chunk)]
  ELSE [ch EXCEPT !.thrown = Append(@, "TypeError: enqueue")]

\* controller.close(): a TypeError once the stream is no longer readable.
ControllerClose(ch) ==
  IF ch.stream = "readable" THEN [ch EXCEPT !.stream = "closed"]
  ELSE [ch EXCEPT !.thrown = Append(@, "TypeError: close")]

\* An interval callback that sends the connected event again.
IntervalCallback_Connected(ch) == ControllerEnqueue(ch, ConnectedEvent)

\* The callback of setInterval.
IntervalCallback(ch) == ControllerEnqueue(ch, HeartbeatEvent)

\* The listener of the signal's abort event.
AbortListener(ch) == ControllerClose([ch EXCEPT !.interval = FALSE])

\* handleSseConnection(controller, signal), run by start: the connected
\* event, the interval and the listener.  A listener added to a signal that
\* has fired is never called.
handleSseConnection(signalAborted) ==
  [ControllerEnqueue(NewChannel(signalAborted), ConnectedEvent)
     EXCEPT !.interval = TRUE, !.listener = TRUE]

\* The signal fires: its listeners run.
SignalAbort(ch) ==
  LET fired == [ch EXCEPT !.aborted = TRUE, !.atAbort = Len(ch.events)]
  IN  IF ch.listener THEN AbortListener(fired) ELSE fired

\* The client cancels the stream: it closes; the underlying source has no
\* cancel callback.
StreamCancel(ch) == [ch EXCEPT !.stream = "closed", !.cancelled = TRUE]

\* new Response(new ReadableStream(...), { headers })
SseResponse == Response(200, "text/event-stream", [type |-> "stream"])

(***************************************************************************)
(* SseHandler.fetch as a whole.  A request is its method, its body, its    *)
(* Authorization header (null when absent), env.AUTH_TOKEN and whether its *)
(* signal has fired.                                                       *)
(***************************************************************************)
Request(method, body, authorization, authToken, signalAborted) ==
  [method |-> method, body |-> body, authorization |-> authorization,
   authToken |-> authToken, signalAborted |-> signalAborted]

\* request.headers.get('Authorization') || request.headers.get('authorization')
\* (header names are matched without case: both lookups give the same value)
AuthHeader(req) == IF Truthy(req.authorization) THEN req.authorization ELSE req.authorization

\* env?.AUTH_TOKEN || ''
ExpectedToken(req) == IF Truthy(req.authToken) THEN req.authToken ELSE JStr("")

\* The check of the Authorization header, were it enforced.
Unauthorized_Enforced(authHeader, expectedToken) ==
  /\ Truthy(expectedToken)
  /\ \/ ~Truthy(authHeader)
     \/ ~StartsWith(authHeader.str, "Bearer ")
     \/ SubSeq(authHeader.str, 8, Len(authHeader.str)) # expectedToken.str

\* The check of the Authorization header: it is commented out.
Unauthorized(authHeader, expectedToken) == FALSE

\* fetch(request, env), run to its end: the response, the handlers invoked
\* and the channels opened.
Fetch(req) ==
  IF Unauthorized(AuthHeader(req), ExpectedToken(req))
  THEN [response |-> Response(401, "text/plain;charset=UTF-8", JStr("Unauthorized")),
        invoked |-> <<>>, channels |-> {}]
  ELSE IF req.method = "GET"
  THEN [response |-> SseResponse, invoked |-> <<>>,
        channels |-> {handleSseConnection(req.signalAborted)}]
  ELSE IF req.method = "POST"
  THEN [response |-> FetchPost(req.body).response,
        invoked |-> FetchPost(req.body).invoked, channels |-> {}]
  ELSE [response |-> MethodNotAllowed, invoked |-> <<>>, channels |-> {}]

(***************************************************************************)
(* fetch awaits twice for a POST: request.json(), then the promise of      *)
(* handleRequest; other requests and callbacks run at each await.  A slot  *)
(* holds the request and the locals of one invocation that stands at an    *)
(* await: pc "json" at the first, "await" at the second with awaited the   *)
(* value the promise holds and invoked the handlers handleRequest ran,     *)
(* "done" with answer the response when the try block threw.               *)
(***************************************************************************)
Slot(req) ==
  [req |-> req, pc |-> "json", awaited |-> Undefined, answer |-> Undefined,
   invoked |-> <<>>]

\* A fetch that calls request.json() before the try, so that its SyntaxError
\* rejects fetch's promise.
JsonSettles_JsonOutsideTry(slot) ==
  LET c == FetchPostTry(slot.req.body)
  IN  IF c.kind = "throw" /\ ~slot.req.body.valid
      THEN [slot EXCEPT !.pc = "done", !.answer = [kind |-> "rejected", error |-> c.error]]
      ELSE IF c.kind = "throw"
      THEN [slot EXCEPT !.pc = "done", !.answer = ErrorResponse(c.error)]
      ELSE [slot EXCEPT !.pc = "await", !.awaited = c.value.body,
                        !.invoked = c.value.invoked]

\* request.json() settles for a slot: the routing and the call of
\* handleRequest, up to the await of its promise; pc "done" when the try
\* block threw, answer being the response of the catch block.
JsonSettles(slot) ==
  LET c == FetchPostTry(slot.req.body)
  IN  IF c.kind = "throw" THEN [slot EXCEPT !.pc = "done", !.answer = ErrorResponse(c.error)]
      ELSE [slot EXCEPT !.pc = "await", !.awaited = c.value.body,
                        !.invoked = c.value.invoked]

\* A responseBody held by the handler object, which every invocation
\* writes: it holds what another invocation wrote when one stands at its
\* second await.
ResponseBody_Shared(slots, slot) ==
  LET others == {x \in BagToSet(slots) : x.pc = "await" /\ x.awaited # slot.awaited}
  IN  IF others = {} THEN slot.awaited ELSE (CHOOSE x \in others : TRUE).awaited

\* let responseBody: a local of the invocation.
ResponseBody(slots, slot) == slot.awaited

\* handleRequest's promise settles for a slot: the response.
HandleRequestSettles(slots, slot) == SuccessResponse(ResponseBody(slots, slot))

\* The bag b with one more x, and with one x less.
Put(b, x) == b (+) SetToBag({x})
Drop(b, x) == b (-) SetToBag({x})

(***************************************************************************)
(* A Brave Search or Supabase handler awaits twice: fetch(...), then       *)
(* response.json(); other handlers and requests run at each await.  A      *)
(* pending call holds the handler that stands at an await: pc "fetch" at   *)
(* the first, with the outbound calls it has made, "json" at the second,   *)
(* with the response up that fetch gave.                                   *)
(***************************************************************************)
NoUpstream == [kind |-> "none"]
\* The body of a response that has not been read.
Unread == [valid |-> FALSE, read |-> FALSE]

\* A handler run to its first await, or to its end when it meets none: the
\* outbound calls are those it makes before any answer.
FirstRun(name, args, cfg) ==
  Handler(name, args, UpResponse(200, "OK", BodyOf(JNull)), cfg)

PendingCall(name, args, outbound) ==
  [tool |-> name, args |-> args, pc |-> "fetch", up |-> NoUpstream, outbound |-> outbound]

\* The promise of fetch settles with up for a pending call: the handler
\* goes on to await response.json() when up is a response with an ok
\* status, its body not read yet, and settles otherwise.
FetchSettles(c, up) ==
  IF up.kind = "response" /\ ResponseOk(up)
  THEN [c EXCEPT !.pc = "json", !.up = [up EXCEPT !.body = Unread]]
  ELSE [c EXCEPT !.pc = "done", !.up = up]

\* response.json() settles for a pending call, the body read.
ResponseJsonSettles(c, body) == [c EXCEPT !.pc = "done", !.up.body = body]

(***************************************************************************)
(* The inputs of the model.                                                *)
(***************************************************************************)
\* An object literal of a JSON text: a key whose value is undefined is absent.
MkObj(pairs) == JObj(Defined(pairs))

\* The JSON object {"toString": 1}: no string can be made of it.
Unstringable == JObj(<< <<"toString", JNum(1)>> >>)

\* Argument values for tools/call and for direct handler invocations.
ArgSamples ==
  { Undefined, JNull, JStr("x"), JArr(<<>>), JObj(<<>>),
    MkObj(<< <<"url", JStr("https://example.com")>> >>),
    MkObj(<< <<"url", JStr("not a url")>> >>),
    MkObj(<< <<"selector", JStr("#main")>> >>),
    MkObj(<< <<"selector", JStr("")>> >>),
    MkObj(<< <<"selector", JNum(5)>> >>),
    MkObj(<< <<"selector", JStr("#q")>>, <<"text", JStr("hi")>> >>),
    MkObj(<< <<"query", JStr("tla")>> >>),
    MkObj(<< <<"query", JStr("")>> >>),
    MkObj(<< <<"query", JStr("a b&c")>>, <<"count", JNum(5)>> >>),
    MkObj(<< <<"query", JStr("tla")>>, <<"count", JNum(0)>> >>),
    MkObj(<< <<"query", JStr("tla")>>, <<"count", JNum(21)>> >>),
    MkObj(<< <<"query", JStr("tla")>>, <<"count", JHalf(1)>> >>),
    MkObj(<< <<"query", JStr("tla")>>, <<"count", JNull>> >>),
    MkObj(<< <<"query", JStr("tla")>>, <<"country", JStr("us")>>,
             <<"language", JStr("en")>>, <<"safesearch", JStr("off")>> >>),
    MkObj(<< <<"query", JStr("tla")>>, <<"country", JStr("usa")>> >>),
    MkObj(<< <<"query", JStr("tla")>>, <<"safesearch", JStr("none")>> >>),
    MkObj(<< <<"query", JStr("tla")>>, <<"freshness", JStr("day")>> >>),
    MkObj(<< <<"table", JStr("users")>> >>),
    MkObj(<< <<"table", JStr("")>> >>),
    MkObj(<< <<"table", JStr("users")>>, <<"select", JStr("id,name")>>,
             <<"limit", JNum(10)>>, <<"order", JStr("id")>>,
             <<"filter", JStr("id=eq.1")>> >>),
    MkObj(<< <<"table", JStr("users")>>, <<"limit", JNum(1001)>> >>),
    MkObj(<< <<"table", JStr("users")>>, <<"rows", JArr(<<JObj(<< <<"id", JNum(1)>> >>)>>)>> >>),
    MkObj(<< <<"table", JStr("users")>>, <<"rows", JArr(<<>>)>> >>),
    MkObj(<< <<"table", JStr("users")>>, <<"updates", JObj(<< <<"name", JStr("n")>> >>)>>,
             <<"filter", JStr("id=eq.1")>> >>),
    MkObj(<< <<"table", JStr("users")>>, <<"filter", JStr("id=eq.1")>> >>),
    MkObj(<< <<"table", JStr("users")>>, <<"filter", JStr("")>> >>),
    MkObj(<< <<"function", JStr("f")>> >>),
    MkObj(<< <<"function", JStr("f")>>, <<"params", JObj(<< <<"n", JNum(2)>> >>)>> >>),
    MkObj(<< <<"function", JStr("")>> >>),
    MkObj(<< <<"url", JStr("https://example.com/a b")>> >>),
    MkObj(<< <<"url", JStr(" https://example.com\t")>> >>),
    MkObj(<< <<"url", JStr("HTTP://EXAMPLE.com:80/")>> >>),
    MkObj(<< <<"url", JStr("http://[::1]:8080/")>> >>),
    MkObj(<< <<"url", JStr("mailto:x")>> >>),
    MkObj(<< <<"url", JStr("ftp://")>> >>),
    MkObj(<< <<"url", JStr("http://a<b")>> >>),
    MkObj(<< <<"url", JStr("http://a:b")>> >>),
    MkObj(<< <<"url", JStr("http://1.2.3.256")>> >>),
    MkObj(<< <<"url", Unstringable>> >>),
    MkObj(<< <<"selector", Unstringable>>, <<"text", JStr("hi")>> >>),
    MkObj(<< <<"selector", JHalf(-1)>>, <<"text", JArr(<<JNull, JNum(1)>>)>> >>),
    MkObj(<< <<"query", Unstringable>> >>),
    MkObj(<< <<"query", JStr("a\tb")>>, <<"count", Unstringable>> >>),
    MkObj(<< <<"query", JStr("tla")>>, <<"safesearch", Unstringable>> >>),
    MkObj(<< <<"table", Unstringable>> >>),
    MkObj(<< <<"function", Unstringable>> >>) }

\* What an upstream answers with.
DataSamples ==
  { JNull, JNum(3), JHalf(-1), JStr("ok"), JStr("a\tb\r\f"), JBool(TRUE), JArr(<<>>), JObj(<<>>),
    JArr(<<JObj(<< <<"id", JNum(1)>>, <<"name", JStr("a \"b\"")>> >>)>>),
    JObj(<< <<"web", JObj(<< <<"results", JArr(<<JStr("r1"), JStr("r2")>>)>> >>)>> >>) }

Upstreams ==
  { UpThrow(ErrorObj("TypeError", "fetch failed")),
    UpThrow(NonError(JStr("timeout"))),
    UpThrow(NonError(Undefined)),
    UpResponse(200, "OK", EmptyBody),
    UpResponse(204, "No Content", EmptyBody),
    UpResponse(301, "Moved Permanently", EmptyBody),
    UpResponse(404, "Not Found", BodyOf(JObj(<< <<"message", JStr("no")>> >>))),
    UpResponse(503, "Service Unavailable", EmptyBody) }
  \cup { UpResponse(200, "OK", BodyOf(d)) : d \in DataSamples }
  \cup { UpResponse(201, "Created", BodyOf(JArr(<<>>))) }

MethodSamples ==
  { Undefined, JNull, JNum(1),
    JStr("list_tools"), JStr("call_tool"), JStr("list_resources"),
    JStr("list_resource_templates"), JStr("read_resource"),
    JStr("bogus"), JStr(""), JStr("LIST_TOOLS"), JStr("tools/list"),
    JArr(<<JStr("list_tools")>>), Unstringable }

IdSamples ==
  { Undefined, JNull, JBool(FALSE), JStr(""), JStr("req-1") }
  \cup { JNum(i) : i \in 0..MaxId }

NameSamples == { JStr(n) : n \in ToolNames } \cup { JStr("no_such_tool"), Undefined }

\* params: the two plain shapes for every method, and for call_tool every
\* name with every argument value.
PlainParams == { Undefined, JObj(<<>>) }
CallParams ==
  { MkObj(<< <<"name", n>>, <<"arguments", a>> >>) : n \in NameSamples, a \in ArgSamples }

\* What the body of a POST parses to.
BodyData ==
  { JNull, JStr("list_tools"), JNum(7), JBool(TRUE), JArr(<<>>), JObj(<<>>) }
  \cup { MkObj(<< <<"method", m>>, <<"params", p>>, <<"id", i>> >>) :
           m \in MethodSamples, p \in PlainParams, i \in IdSamples }
  \cup { MkObj(<< <<"method", JStr("call_tool")>>, <<"params", p>>, <<"id", i>> >>) :
           p \in CallParams, i \in {Undefined, JNum(1)} }

Bodies == { EmptyBody } \cup { BodyOf(d) : d \in BodyData }

\* The Authorization headers and the AUTH_TOKEN settings of the requests
\* that carry them: absent, malformed, wrong token, correct token.
AuthHeaders == { JNull, JStr("secret"), JStr("Bearer wrong"), JStr("Bearer secret") }
AuthTokens == { Undefined, JStr(""), JStr("secret") }

\* The bodies of the requests that carry an Authorization header, and of
\* the concurrent POSTs.
FewBodies ==
  { EmptyBody, BodyOf(JNull) }
  \cup { BodyOf(MkObj(<< <<"method", JStr(m)>>, <<"params", JObj(<<>>)>>, <<"id", i>> >>)) :
           m \in {"list_tools", "read_resource", "bogus"}, i \in {JNum(1), JStr("req-1")} }
  \cup { BodyOf(MkObj(<< <<"method", JStr("call_tool")>>,
                         <<"params", MkObj(<< <<"name", JStr(n)>>,
                                              <<"arguments", JObj(<<>>)>> >>)>>,
                         <<"id", JNum(2)>> >>)) :
           n \in {"brave_web_search", "puppeteer_click"} }

\* What runs together with other operations: the requests, the handler
\* calls and the upstream answers.
ListToolsBody(id) ==
  BodyOf(MkObj(<< <<"method", JStr("list_tools")>>, <<"params", JObj(<<>>)>>, <<"id", id>> >>))

BogusBody ==
  BodyOf(MkObj(<< <<"method", JStr("bogus")>>, <<"params", JObj(<<>>)>>, <<"id", JNum(1)>> >>))

CallToolBody(name, arguments, id) ==
  BodyOf(MkObj(<< <<"method", JStr("call_tool")>>,
                  <<"params", MkObj(<< <<"name", JStr(name)>>, <<"arguments", arguments>> >>)>>,
                  <<"id", id>> >>))

\* Two calls of one tool that differ in their id only, a call of another
\* tool, another method, and a body that is no JSON.
TogetherBodies ==
  { EmptyBody,
    ListToolsBody(JNum(1)),
    CallToolBody("brave_web_search", JObj(<< <<"query", JStr("together")>> >>), JStr("a")),
    CallToolBody("brave_web_search", JObj(<< <<"query", JStr("together")>> >>), JStr("b")),
    CallToolBody("puppeteer_click", JObj(<< <<"selector", JStr("#go")>> >>), JStr("c")) }

TogetherPosts ==
  { Request("POST", body, JNull, Undefined, FALSE) : body \in TogetherBodies }
  \cup { Request("POST", BogusBody, JStr("Bearer wrong"), JStr("secret"), FALSE) }

TogetherCalls ==
  { <<"brave_web_search", JObj(<< <<"query", JStr("together")>> >>)>>,
    <<"supabase_query_table", JObj(<< <<"table", JStr("t")>>, <<"select", JStr("id")>> >>)>>,
    <<"puppeteer_navigate", JObj(<< <<"url", JStr("https://example.org")>> >>)>> }

TogetherUpstreams ==
  { UpThrow(ErrorObj("TypeError", "fetch failed")),
    UpResponse(404, "Not Found", BodyOf(JObj(<< <<"message", JStr("no")>> >>))),
    UpResponse(200, "OK", BodyOf(JStr("ok"))) }

\* How many operations stand open together (POSTs and handler calls at an
\* await, channels), how many times the heartbeat intervals fire, how many
\* registerTool calls are made besides createMcpServer's.
MaxInFlight == 2
MaxTicks == 2
MaxRegistrations == 2

(***************************************************************************)
(* The state.  cfg is the module-level configuration, registered the       *)
(* registrations made, built the number of calls createMcpServer has made. *)
(* What stands open, each a bag, as nothing orders its members: inflight,  *)
(* the POSTs at an await; channels, the                                    *)
(* notification channels the GETs opened; calls, the handler calls at an   *)
(* await.  Nothing orders the operations: a request is served, a timer     *)
(* fires and a handler is called while others stand open.  What the last   *)
(* step gave to its caller: request and response when an invocation of     *)
(* fetch returned, call and outcome when a handler's promise settled,      *)
(* invoked the handlers that operation ran; a step that gives nothing      *)
(* leaves them empty.                                                      *)
(***************************************************************************)
VARIABLES cfg, registered, built, inflight, channels, calls,
          request, response, invoked, call, outcome

vars == <<cfg, registered, built, inflight, channels, calls,
          request, response, invoked, call, outcome>>

NoRequest == [method |-> "none"]
NoResponse == [kind |-> "none"]
NoCall == [tool |-> "none"]
NoOutcome == [kind |-> "none"]

\* The step gives nothing to a caller.
Forget ==
  /\ request' = NoRequest
  /\ response' = NoResponse
  /\ invoked' = <<>>
  /\ call' = NoCall
  /\ outcome' = NoOutcome

\* fetch(req) returns resp, having run the handlers inv.
Returns(req, resp, inv) ==
  /\ request' = req
  /\ response' = resp
  /\ invoked' = inv
  /\ call' = NoCall
  /\ outcome' = NoOutcome

\* The promise of the handler call c settles as o.
Settles(c, o) ==
  /\ call' = [tool |-> c.tool, args |-> c.args, up |-> c.up]
  /\ outcome' = o
  /\ invoked' = <<c.tool>>
  /\ request' = NoRequest
  /\ response' = NoResponse

Init ==
  /\ \E env \in Envs : cfg = Config(env)
  /\ registered = createMcpServer
  /\ built = Len(createMcpServerCalls)
  /\ inflight = EmptyBag
  /\ channels = EmptyBag
  /\ calls = EmptyBag
  /\ request = NoRequest
  /\ response = NoResponse
  /\ invoked = <<>>
  /\ call = NoCall
  /\ outcome = NoOutcome

\* How many operations stand open.
Load == BagCardinality(inflight) + BagCardinality(channels) + BagCardinality(calls)

\* Every POST and handler call that stands open is one of those that run
\* together with others.
AllTogether ==
  /\ \A slot \in BagToSet(inflight) : slot.req \in TogetherPosts
  /\ \A c \in BagToSet(calls) : <<c.tool, c.args>> \in TogetherCalls

\* The server has done nothing yet.
Fresh == Load = 0 /\ request = NoRequest /\ call = NoCall

\* An operation may start, the operations in hand being fewer than
\* MaxInFlight: one of the full inputs as the first operation of a server,
\* one of those that run together at any time after.
MayStart == Load < MaxInFlight /\ (Fresh \/ AllTogether)

\* fetch is called with req: a POST goes to its first await, any other
\* request is answered at once, a GET opening its channel.
Serve(req) ==
  IF req.method = "POST" /\ ~Unauthorized(AuthHeader(req), ExpectedToken(req))
  THEN /\ inflight' = Put(inflight, Slot(req))
       /\ Forget
       /\ UNCHANGED <<cfg, registered, built, channels, calls>>
  ELSE \E f \in {Fetch(req)} :
         /\ Returns(req, f.response, f.invoked)
         /\ channels' = channels (+) SetToBag(f.channels)
         /\ UNCHANGED <<cfg, registered, built, inflight, calls>>

\* A POST reaches fetch.
Post ==
  /\ MayStart
  /\ \E body \in (IF Fresh THEN Bodies \cup TogetherBodies ELSE TogetherBodies) :
       Serve(Request("POST", body, JNull, Undefined, FALSE))

\* A request that is neither GET nor POST reaches fetch.
OtherMethod ==
  /\ MayStart
  /\ \E m \in (IF Fresh THEN {"PUT", "DELETE", "HEAD"} ELSE {"PUT"}),
        body \in (IF Fresh THEN {EmptyBody, BodyOf(JObj(<<>>))} ELSE {EmptyBody}) :
      Serve(Request(m, body, JNull, Undefined, FALSE))

\* A POST or a PUT reaches fetch with an Authorization header, under some
\* AUTH_TOKEN.
WithAuthorization ==
  /\ MayStart
  /\ \E m \in (IF Fresh THEN {"POST", "PUT"} ELSE {"POST"}),
        body \in (IF Fresh THEN FewBodies ELSE {BogusBody}),
        a \in (IF Fresh THEN AuthHeaders ELSE {JStr("Bearer wrong")}),
        t \in (IF Fresh THEN AuthTokens ELSE {JStr("secret")}) :
      Serve(Request(m, body, a, t, FALSE))

\* A GET reaches fetch: the channel opens.  The signal of the request may
\* have fired before.
GetRequest ==
  /\ MayStart
  /\ \E a \in (IF Fresh THEN AuthHeaders ELSE {JNull}),
        t \in (IF Fresh THEN AuthTokens ELSE {Undefined}),
        signalAborted \in (IF Fresh THEN BOOLEAN ELSE {FALSE}) :
      Serve(Request("GET", EmptyBody, a, t, signalAborted))

RECURSIVE TicksOf(_, _)
\* How many times the intervals of the channels chs of the bag b have fired.
TicksOf(chs, b) ==
  IF chs = {} THEN 0
  ELSE LET ch == CHOOSE x \in chs : TRUE
       IN  (ch.elapsed \div HeartbeatPeriod) * CopiesIn(ch, b) + TicksOf(chs \ {ch}, b)

Ticks(b) == TicksOf(BagToSet(b), b)

\* The heartbeat interval of a channel fires.
Tick ==
  /\ Ticks(channels) < MaxTicks
  /\ \E ch \in BagToSet(channels) :
       /\ ch.interval
       /\ channels' = Put(Drop(channels, ch),
                          [IntervalCallback(ch) EXCEPT !.elapsed = @ + HeartbeatPeriod])
  /\ Forget
  /\ UNCHANGED <<cfg, registered, built, inflight, calls>>

\* The abort signal of a channel's request fires.
Abort ==
  /\ \E ch \in BagToSet(channels) :
       /\ ~ch.aborted
       /\ channels' = Put(Drop(channels, ch), SignalAbort(ch))
  /\ Forget
  /\ UNCHANGED <<cfg, registered, built, inflight, calls>>

\* The client cancels the stream of a channel.
Cancel ==
  /\ \E ch \in BagToSet(channels) :
       /\ ch.stream = "readable"
       /\ channels' = Put(Drop(channels, ch), StreamCancel(ch))
  /\ Forget
  /\ UNCHANGED <<cfg, registered, built, inflight, calls>>

\* request.json() settles for one of the POSTs in flight: the invocation
\* goes on to await handleRequest's promise, or its catch block answers.
JsonStep ==
  /\ \E slot \in BagToSet(inflight) :
       /\ slot.pc = "json"
       /\ \E next \in {JsonSettles(slot)} :
            IF next.pc = "done"
            THEN /\ inflight' = Drop(inflight, slot)
                 /\ Returns(slot.req, next.answer, <<>>)
            ELSE /\ inflight' = Put(Drop(inflight, slot), next)
                 /\ Forget
  /\ UNCHANGED <<cfg, registered, built, channels, calls>>

\* handleRequest's promise settles for one of the POSTs in flight: fetch
\* returns the response.
HandleRequestStep ==
  /\ \E slot \in BagToSet(inflight) :
       /\ slot.pc = "await"
       /\ inflight' = Drop(inflight, slot)
       /\ Returns(slot.req, HandleRequestSettles(inflight, slot), slot.invoked)
  /\ UNCHANGED <<cfg, registered, built, channels, calls>>

\* A tool handler is invoked with some arguments: it makes its fetch call
\* and stands at the await, or settles without one.
InvokeHandler ==
  /\ MayStart
  /\ \E c \in (IF Fresh THEN ToolNames \X ArgSamples ELSE TogetherCalls) :
       /\ \E o \in {FirstRun(c[1], c[2], cfg)} :
            IF o.outbound = <<>>
            THEN /\ Settles(PendingCall(c[1], c[2], <<>>), o)
                 /\ calls' = calls
            ELSE /\ calls' = Put(calls, PendingCall(c[1], c[2], o.outbound))
                 /\ Forget
       /\ cfg' = ConfigAfterHandler(c[1], cfg)
  /\ UNCHANGED <<registered, built, inflight, channels>>

\* The promise of fetch settles for a handler call: the upstream answered,
\* or the call threw.  The handler goes on to await response.json(), or
\* settles.
UpstreamAnswers ==
  /\ \E c \in BagToSet(calls), up \in (IF AllTogether THEN TogetherUpstreams ELSE Upstreams) :
       /\ c.pc = "fetch"
       /\ IF FetchSettles(c, up).pc = "done"
          THEN /\ calls' = Drop(calls, c)
               /\ Settles(FetchSettles(c, up), Handler(c.tool, c.args, up, cfg))
          ELSE /\ calls' = Put(Drop(calls, c), FetchSettles(c, up))
               /\ Forget
  /\ UNCHANGED <<cfg, registered, built, inflight, channels>>

\* response.json() settles for a handler call, with the body of some
\* upstream answer of the status received: the handler settles.
ResponseJsonStep ==
  /\ \E c \in BagToSet(calls), up \in (IF AllTogether THEN TogetherUpstreams ELSE Upstreams) :
       /\ c.pc = "json"
       /\ FetchSettles(c, up) = c
       /\ calls' = Drop(calls, c)
       /\ Settles(ResponseJsonSettles(c, up.body), Handler(c.tool, c.args, up, cfg))
  /\ UNCHANGED <<cfg, registered, built, inflight, channels>>

Next ==
  \/ Post \/ OtherMethod \/ WithAuthorization
  \/ GetRequest \/ Tick \/ Abort \/ Cancel
  \/ JsonStep \/ HandleRequestStep
  \/ InvokeHandler \/ UpstreamAnswers \/ ResponseJsonStep

Spec == Init /\ [][Next]_vars

(***************************************************************************)
(* Construction, one call at a time, from the modules just loaded: the     *)
(* calls of createMcpServer in their order, and between them the calls     *)
(* that the exported functions allow anyone to make.                       *)
(***************************************************************************)
InitRegister ==
  /\ cfg = LoadedConfig
  /\ registered = <<>>
  /\ built = 0
  /\ inflight = EmptyBag
  /\ channels = EmptyBag
  /\ calls = EmptyBag
  /\ request = NoRequest
  /\ response = NoResponse
  /\ invoked = <<>>
  /\ call = NoCall
  /\ outcome = NoOutcome

\* What one call of createMcpServer's sequence does to the configuration
\* in the scope env, and to the registrations.
ConfigAfterCall(c, config, env) ==
  IF c.op = "createBraveSearchTools" THEN createBraveSearchTools(config, env)
  ELSE IF c.op = "createSupabaseTools" THEN createSupabaseTools(config, env)
  ELSE config

RegisteredAfterCall(c, names) ==
  IF c.op = "registerTool" THEN registerTool(names, c.name) ELSE names

\* createMcpServer makes its next call; the global scope is what it is at
\* that call.
SetupStep ==
  /\ built < Len(createMcpServerCalls)
  /\ \E env \in Envs : cfg' = ConfigAfterCall(createMcpServerCalls[built + 1], cfg, env)
  /\ registered' = RegisteredAfterCall(createMcpServerCalls[built + 1], registered)
  /\ built' = built + 1
  /\ UNCHANGED <<inflight, channels, calls, request, response, invoked, call, outcome>>

\* How many of the first n calls of createMcpServer are registrations.
Registrations(n) ==
  Cardinality({i \in 1..n : createMcpServerCalls[i].op = "registerTool"})

\* server.registerTool({ name, ... }) is called besides createMcpServer's
\* calls, and returns.
Register ==
  /\ Len(registered) - Registrations(built) < MaxRegistrations
  /\ \E name \in {"puppeteer_navigate", "brave_web_search", "my_tool"} :
       registered' = registerTool(registered, name)
  /\ UNCHANGED <<cfg, built, inflight, channels, calls,
                 request, response, invoked, call, outcome>>

\* createBraveSearchTools() is called besides createMcpServer's call.
CallCreateBraveSearchTools ==
  /\ \E env \in Envs : cfg' = createBraveSearchTools(cfg, env)
  /\ UNCHANGED <<registered, built, inflight, channels, calls,
                 request, response, invoked, call, outcome>>

\* createSupabaseTools() is called besides createMcpServer's call.
CallCreateSupabaseTools ==
  /\ \E env \in Envs : cfg' = createSupabaseTools(cfg, env)
  /\ UNCHANGED <<registered, built, inflight, channels, calls,
                 request, response, invoked, call, outcome>>

NextRegister ==
  \/ SetupStep \/ Register
  \/ CallCreateBraveSearchTools \/ CallCreateSupabaseTools

SpecRegister == InitRegister /\ [][NextRegister]_vars

(***************************************************************************)
(* Reading the request and the response given.                             *)
(***************************************************************************)
IsPost == request.method = "POST"
\* The POST's body parsed to an object.
PostedObject == IsPost /\ request.body.valid /\ request.body.data.type = "object"
ReqMethod == Get(request.body.data, "method")
ReqName == Get(Get(request.body.data, "params"), "name")
ReqArguments == Get(Get(request.body.data, "params"), "arguments")
IsCallTool == PostedObject /\ ReqMethod = JStr("call_tool")

RegisteredNames == {registered[i] : i \in 1..Len(registered)}
NamesRegistered == ReqName.type = "string" /\ ReqName.str \in RegisteredNames

Answered == response.kind = "response"
\* Status 200 with a result and no error.
IsSuccess ==
  /\ Answered
  /\ response.status = 200
  /\ Has(response.body, "result")
  /\ ~Has(response.body, "error")

ResponseError == Get(response.body, "error")
\* A non-2xx status with an error object {code, message} and a null id.
IsFailure ==
  /\ Answered
  /\ response.status = 500
  /\ ~Has(response.body, "result")
  /\ Has(response.body, "error")
  /\ Has(ResponseError, "code")
  /\ Get(ResponseError, "message").type = "string"
  /\ Get(response.body, "id") = JNull

IsFailureWith(code) == IsFailure /\ Get(ResponseError, "code") = JNum(code)

(***************************************************************************)
(* C1..C5: the dispatch of list_tools and call_tool.                       *)
(***************************************************************************)
\* The arguments of the call_tool pass the input schema of the tool named,
\* or fail it, whatever the URL parser says of a url they hold.
ArgumentsValid ==
  \A parses \in BOOLEAN : InputSchemaAccepts(ReqName.str, ReqArguments, parses)
ArgumentsInvalid ==
  \A parses \in BOOLEAN : ~InputSchemaAccepts(ReqName.str, ReqArguments, parses)

\* C1: a call_tool for a registered tool with arguments that pass its input
\* schema invokes that tool's handler exactly once, and no other, and the
\* response's result is the ToolResult the handler returned.
C1_CallToolInvokesHandler ==
  (IsCallTool /\ NamesRegistered /\ ArgumentsValid)
    => /\ invoked = <<ReqName.str>>
       /\ IsSuccess
       /\ \E up \in Upstreams :
            LET o == Handler(ReqName.str, ReqArguments, up, cfg)
            IN  o.kind = "resolved" /\ Get(response.body, "result") = o.value

\* C2: a call_tool for a registered tool with arguments that fail its input
\* schema is answered with the error InvalidParams, and the handler is not
\* invoked.
C2_InvalidArgumentsRejected ==
  (IsCallTool /\ NamesRegistered /\ ArgumentsInvalid)
    => IsFailureWith(InvalidParams) /\ invoked = <<>>

FourOperations == {"list_tools", "call_tool", "list_resources", "read_resource"}
RoutedMethods == FourOperations \cup {"list_resource_templates"}
MethodNotFoundNaming(m) ==
  /\ IsFailureWith(MethodNotFound)
  /\ Includes(Get(ResponseError, "message").str, m)
  /\ invoked = <<>>

\* C3 as claimed: every method name that is not one of the four operations is
\* answered with the error MethodNotFound, the message naming the method, and
\* no handler is invoked.
C3_UnknownMethodOfFour ==
  (PostedObject /\ ReqMethod.type = "string" /\ ReqMethod.str \notin FourOperations)
    => MethodNotFoundNaming(ReqMethod.str)

\* C3 as amended: every method name that is none of list_tools, call_tool,
\* list_resources, list_resource_templates and read_resource is answered with
\* status 500 and the error MethodNotFound, the message naming the method, and
\* no handler is invoked.
C3_UnknownMethod ==
  (PostedObject /\ ReqMethod.type = "string" /\ ReqMethod.str \notin RoutedMethods)
    => MethodNotFoundNaming(ReqMethod.str)

C3_Witness ==
  /\ PostedObject
  /\ ReqMethod = JStr("bogus")
  /\ IsFailureWith(MethodNotFound)
  /\ Get(ResponseError, "message") = JStr("Unknown method: bogus")

\* C4: a call_tool whose name is not that of a registered tool is answered
\* with the error MethodNotFound, not with a success, and no handler is invoked.
C4_UnknownToolRejected ==
  (IsCallTool /\ ~NamesRegistered) => IsFailureWith(MethodNotFound) /\ invoked = <<>>

\* C5: list_tools answers with one entry per registered tool, holding its
\* name, its description and its input schema, and not its handler.
C5_ListToolsListsRegistered ==
  (PostedObject /\ ReqMethod = JStr("list_tools"))
    => /\ IsSuccess
       /\ LET tools == Get(Get(response.body, "result"), "tools")
          IN  /\ tools.type = "array"
              /\ Len(tools.items) = Len(registered)
              /\ \A i \in 1..Len(registered) :
                   /\ Get(tools.items[i], "name") = JStr(registered[i])
                   /\ Get(tools.items[i], "description") = JStr(AllTools[i].description)
                   /\ Has(tools.items[i], "inputSchema")
                   /\ ~Has(tools.items[i], "handler")

(***************************************************************************)
(* C6, C7: the tool handlers.                                              *)
(***************************************************************************)
Called == call.tool # "none"
\* The handler made its fetch call, which was answered or threw.
Fetched == Called /\ call.up # NoUpstream
\* The upstream call fails: fetch throws, the status is not 2xx, or the body
\* is no JSON.
UpstreamFails(up) ==
  up.kind = "throw" \/ ~ResponseOk(up) \/ ~up.body.valid
Content(result) == Get(result, "content")
\* A result whose content is one text block, the text starting with prefix.
OneTextBlockStarting(result, prefix) ==
  /\ Content(result).type = "array"
  /\ Len(Content(result).items) = 1
  /\ Get(Content(result).items[1], "type") = JStr("text")
  /\ Get(Content(result).items[1], "text").type = "string"
  /\ StartsWith(Get(Content(result).items[1], "text").str, prefix)

\* C6: a Brave Search or Supabase handler whose upstream call fails resolves
\* with isError true and one text block starting "Error in <tool>: "; when
\* the call it made succeeds, the result has no isError flag.
C6_UpstreamFailureIsErrorResult ==
  (Called /\ call.tool \in BraveNames \cup SupabaseNames)
    => /\ outcome.kind = "resolved"
       /\ (Fetched /\ UpstreamFails(call.up))
            => /\ Get(outcome.value, "isError") = JBool(TRUE)
               /\ OneTextBlockStarting(outcome.value, "Error in " \o call.tool \o ": ")
       /\ (Fetched /\ ~UpstreamFails(call.up))
            => ~Has(outcome.value, "isError")

C6_Witness ==
  /\ call.tool = "brave_web_search"
  /\ call.up = UpResponse(503, "Service Unavailable", EmptyBody)
  /\ outcome.kind = "resolved"
  /\ outcome.value =
       ErrorResult("Error in brave_web_search: Brave Search API error: 503 Service Unavailable")

\* C7: every invocation of every tool handler, for any argument value and any
\* upstream, resolves with a ToolResult whose content is not empty; none is
\* rejected.
C7_HandlersAlwaysResolve ==
  Called
    => /\ outcome.kind = "resolved"
       /\ Content(outcome.value).type = "array"
       /\ Len(Content(outcome.value).items) >= 1

(***************************************************************************)
(* C8..C10: the responses to a POST.                                       *)
(***************************************************************************)
\* C8: every POST is answered either with status 200, a result and no error,
\* or with status 500 and an error {code, message} whose code is one of the
\* five error codes and whose id is null; never with both a result and an
\* error, and never with an error under status 200.
C8_ResponseShape ==
  IsPost
    => \/ IsSuccess
       \/ IsFailure /\ \E code \in ErrorCodes : Get(ResponseError, "code") = JNum(code)

C8_Witness ==
  /\ IsPost
  /\ request.body.valid
  /\ Get(request.body.data, "method") = JStr("tools/list")
  /\ IsFailureWith(MethodNotFound)
  /\ response.contentType = "application/json"

\* C9: a success carries the id of its request: the id the request supplies,
\* whatever its value, and null when the request supplies none.
C9_IdEchoed ==
  (PostedObject /\ IsSuccess)
    => Get(response.body, "id")
         = (IF Has(request.body.data, "id") THEN Get(request.body.data, "id") ELSE JNull)

\* The handling of the POST fails with something that is no McpError: the
\* body is no JSON, the body is null, or the method is not routed and the
\* message of the McpError cannot be built, the method having no string
\* form.
FailsOtherwise ==
  \/ ~request.body.valid
  \/ Nullish(request.body.data)
  \/ /\ Get(request.body.data, "method") \notin {JStr(m) : m \in RoutedMethods}
     /\ ToStr(Get(request.body.data, "method")).kind = "throw"

\* C10: a POST whose handling fails with something other than an McpError is
\* answered with status 500 and the error InternalError, and only such a
\* POST is; any other POST is answered with a success or with the error
\* MethodNotFound; fetch settles every POST with a response.
C10_OtherFailuresAreInternalError ==
  IsPost
    => /\ Answered
       /\ FailsOtherwise => IsFailureWith(InternalError)
       /\ ~FailsOtherwise => (IsSuccess \/ IsFailureWith(MethodNotFound))

C10_Witness ==
  /\ IsPost
  /\ request.body = BodyOf(JNull)
  /\ IsFailureWith(InternalError)
  /\ Get(ResponseError, "message")
       = JStr("Cannot read properties of null (reading 'method')")

(***************************************************************************)
(* C11, C12: the notification channel.  A client reads an event's name     *)
(* and data from the text enqueued.                                        *)
(***************************************************************************)
RECURSIVE Before(_, _)
\* The part of s before the first sep, s itself when it holds none.
Before(s, sep) ==
  IF Len(s) < Len(sep) THEN s
  ELSE IF StartsWith(s, sep) THEN ""
  ELSE SubSeq(s, 1, 1) \o Before(SubSeq(s, 2, Len(s)), sep)

RECURSIVE After(_, _)
\* The part of s after the first sep, empty when it holds none.
After(s, sep) ==
  IF Len(s) < Len(sep) THEN ""
  ELSE IF StartsWith(s, sep) THEN SubSeq(s, Len(sep) + 1, Len(s))
  ELSE After(SubSeq(s, 2, Len(s)), sep)

EventName(text) == Before(After(text, "event: "), "\n")
EventData(text) == Before(After(text, "\ndata: "), "\n")
ServerIdOf(data) == Before(After(data, "\"serverId\": \""), "\"")

\* The signal has not fired and the client has not cancelled the stream.
ClientConnected(ch) == ~ch.aborted /\ ~ch.cancelled

\* C11: on every channel a GET opened the first event is `connected`, with a
\* serverId that is not empty; every later event is a `heartbeat`, so that
\* `connected` comes once and before any heartbeat; and while the client
\* stays connected there is one heartbeat for each 30 seconds elapsed.
C11_ConnectedThenHeartbeats ==
  \A ch \in BagToSet(channels) :
        /\ Len(ch.events) >= 1
        /\ EventName(ch.events[1]) = "connected"
        /\ ServerIdOf(EventData(ch.events[1])) # ""
        /\ \A k \in 2..Len(ch.events) : EventName(ch.events[k]) = "heartbeat"
        /\ ClientConnected(ch)
             => (Len(ch.events) - 1) * HeartbeatPeriod = ch.elapsed

C11_Witness ==
  /\ BagCardinality(inflight) = 1
  /\ \E ch \in BagToSet(channels) :
       /\ ClientConnected(ch)
       /\ ch.elapsed = 2 * HeartbeatPeriod
       /\ ch.events = <<ConnectedEvent, HeartbeatEvent, HeartbeatEvent>>

\* C12: once the abort signal of a channel has fired, or the client has
\* cancelled its stream, no further event is enqueued, the heartbeat
\* interval is stopped and the stream is closed, once: no callback of the
\* channel fails on a closed stream.
C12_AbortStopsChannel ==
  \A ch \in BagToSet(channels) :
        (ch.aborted \/ ch.cancelled)
          => /\ ~ch.interval
             /\ ch.stream = "closed"
             /\ ch.thrown = <<>>
             /\ ch.aborted => Len(ch.events) = ch.atAbort

(***************************************************************************)
(* C13: concurrent POSTs.                                                  *)
(***************************************************************************)
\* C13: in every interleaving of the POSTs in flight with each other and
\* with the other operations, each POST is answered with the response fetch
\* gives that request when nothing else is in hand; a success carries the
\* id of its own request or null, never another's.
C13_ConcurrentAsAlone ==
  (IsPost /\ Answered)
    => /\ response = Fetch(request).response
       /\ IsSuccess
            => /\ Get(response.body, "id") \in {Get(request.body.data, "id"), JNull}
               /\ Get(response.body, "result") = JObj(<<>>)

\* A call of brave_web_search is answered with its own id while another
\* call of the same tool, with another id, awaits handleRequest's promise.
C13_Witness ==
  /\ IsPost
  /\ IsSuccess
  /\ ReqMethod = JStr("call_tool")
  /\ ReqName = JStr("brave_web_search")
  /\ Get(response.body, "id") = JStr("a")
  /\ \E slot \in BagToSet(inflight) :
       /\ slot.pc = "await"
       /\ Get(Get(slot.req.body.data, "params"), "name") = JStr("brave_web_search")
       /\ Get(slot.awaited, "id") = JStr("b")

(***************************************************************************)
(* C14, C15: resources and registrations.                                  *)
(***************************************************************************)
\* C14: every read_resource is answered with the error MethodNotFound, never
\* with a success.
C14_ReadResourceNotFound ==
  (PostedObject /\ ReqMethod = JStr("read_resource")) => IsFailureWith(MethodNotFound)

\* C15: the registrations of one server hold each name once: a registerTool
\* call for a name that is registered fails and adds nothing.
C15_NamesUnique ==
  \A i, j \in 1..Len(registered) : registered[i] = registered[j] => i = j

(***************************************************************************)
(* C16, C17: what one invocation does.                                     *)
(***************************************************************************)
\* C16: one invocation of a tool handler resolves with one ToolResult; a
\* Brave Search or Supabase handler made one outbound fetch, whether it
\* succeeded or failed, and a puppeteer stub made none.
C16_OneFetchOneResult ==
  Called
    => /\ outcome.kind = "resolved"
       /\ Content(outcome.value).type = "array"
       /\ call.tool \in BraveNames \cup SupabaseNames => Len(outcome.outbound) = 1
       /\ call.tool \in PuppeteerNames => outcome.outbound = <<>>

\* C17: no step after construction (a request handled, a handler invoked, an
\* event of a channel) changes the registered tools or the module-level
\* configuration.
C17_ConfigurationFrozen ==
  [][cfg' = cfg /\ registered' = registered]_vars

C17_Witness ==
  /\ call.tool = "brave_web_search"
  /\ cfg.braveToken = "brave-key"
  /\ Len(outcome.outbound) = 1
  /\ Get(outcome.outbound[1].headers, "X-Subscription-Token") = JStr("brave-key")
  /\ registered = createMcpServer

(***************************************************************************)
(* C18: authentication.                                                    *)
(***************************************************************************)
\* C18: the status and the body of the response to a request are those of
\* the response to the same request under any other Authorization header and
\* any other AUTH_TOKEN, and no response has status 401.
C18_NoAuthentication ==
  request.method # "none"
    => /\ Answered
       /\ response.status # 401
       /\ \A a \in AuthHeaders, t \in AuthTokens :
            LET other == Fetch([request EXCEPT !.authorization = a, !.authToken = t]).response
            IN  other.status = response.status /\ other.body = response.body

C18_Witness ==
  /\ request.method = "POST"
  /\ request.authorization = JStr("Bearer wrong")
  /\ request.authToken = JStr("secret")
  /\ IsSuccess

====
